---- MODULE Spec2Model ----
(***************************************************************************)
(* The rolling-window simulation of src/src/simulation.cpp as a state      *)
(* machine: one action per step of swr::simulation (trial set-up, the four *)
(* steps of a simulated month, the two year-end steps, the classification  *)
(* of a trial, the aggregation), plus the auxiliary operations             *)
(* simulations_ran, parse_rebalance and operator<<.                        *)
(*                                                                         *)
(* Numbers.  The C++ floats are modelled in fixed point: an amount is an   *)
(* integer number of 1/Scale currency units, a factor is a pair            *)
(* <<numerator, denominator>>, and every multiplication or division rounds *)
(* toward zero.  Cursors (vector iterators) are positions in a series.     *)
(***************************************************************************)
EXTENDS Integers, Sequences, FiniteSets

\* ------------------------------------------------------------ bounds
\* Longest horizon (argument years) a call is made with.
MaxYears == 2
\* Fixed-point resolution: units per currency unit.
Scale == 100
\* Year of the first data point of every series.
DataFirstYear == 1871
\* SpecCalls starts a further call only while the counter is below this.
MaxSimulations == 25

\* ------------------------------------------------- program constants
\* In percent (lines 12-14): 0.005 = 1/200, 0.01 = 1/100.
monthly_rebalancing_cost == <<1, 200>>
yearly_rebalancing_cost == <<1, 100>>
threshold_rebalancing_cost == <<1, 100>>

\* const float start_value = 1000.0f
start_value == 1000 * Scale

\* ------------------------------------------------------- arithmetic
Max(a, b) == IF a < b THEN b ELSE a

Abs(a) == IF a < 0 THEN 0 - a ELSE a

\* <<q, r>> with a * b = q * c + r and 0 <= r < c (a, b >= 0, c > 0), computed
\* by doubling so that no intermediate product leaves the integer range.
RECURSIVE MulDivQR(_, _, _)
MulDivQR(a, b, c) ==
    IF b = 0 THEN <<0, 0>>
    ELSE LET h == MulDivQR(a, b \div 2, c)
             d == <<2 * h[1] + (2 * h[2]) \div c, (2 * h[2]) % c>>
             s == d[2] + (a % c)
         IN  IF b % 2 = 0 THEN d
             ELSE <<d[1] + (a \div c) + (s \div c), s % c>>

\* a * b / c rounded toward zero.
MulDiv(a, b, c) == MulDivQR(a, b, c)[1]

\* amount * factor, for a factor <<numerator, denominator>>.
Times(amount, f) == MulDiv(amount, f[1], f[2])

RECURSIVE Sum(_)
\* std::accumulate(v.begin(), v.end(), 0.0f)
Sum(v) == IF v = <<>> THEN 0 ELSE v[1] + Sum(Tail(v))

\* --------------------------------------------------------- the data
\* A series is a std::vector<swr::data>, ascending by (year, month), without
\* gaps, whose first element is (DataFirstYear, 1).  Position p (from 0) holds:
YearAt(p) == DataFirstYear + (p \div 12)

MonthAt(p) == 1 + (p % 12)

\* The factor of series id for (year, month).
Factor(id, year, month) ==
    CASE id = "steady"   -> <<1, 1>>
      [] id = "volatile" -> IF month = 3 THEN <<3, 2>>
                            ELSE IF month = 9 THEN <<1, 2>> ELSE <<1, 1>>
      [] id = "bust"     -> IF month = 6 /\ year = DataFirstYear + 2
                            THEN <<0, 1>> ELSE <<1, 1>>
      [] id = "rising"   -> IF month \in {1, 7} THEN <<21, 20>> ELSE <<1, 1>>

\* The element `it` points to: swr::data{year, month, value}.
Deref(id, p) ==
    [year |-> YearAt(p), month |-> MonthAt(p),
     value |-> Factor(id, YearAt(p), MonthAt(p))]

\* swr::get_start(series, year, month): the position of (year, month).
get_start(year, month) == (year - DataFirstYear) * 12 + (month - 1)

\* ----------------------------------------------------------- inputs
NONE == "NONE"
MONTHLY == "MONTHLY"
YEARLY == "YEARLY"
THRESHOLD == "THRESHOLD"
Rebalancing == {NONE, MONTHLY, YEARLY, THRESHOLD}

\* (portfolio allocations in percent, the return series of each asset)
Portfolios ==
    { [portfolio |-> <<100>>, values |-> <<"volatile">>],
      [portfolio |-> <<60, 40>>, values |-> <<"steady", "volatile">>],
      [portfolio |-> <<50, 50>>, values |-> <<"volatile", "bust">>],
      [portfolio |-> <<100, 0>>, values |-> <<"bust", "steady">>] }

\* wr, in percent
WithdrawalRates == {4, 120}

\* threshold, as a fraction <<numerator, denominator>>
Thresholds == {<<0, 1>>, <<1, 10>>}

\* end_year - years - start_year: the eligible start years beyond the first
Spans == {0, 1}

StartYears == {DataFirstYear + 1}

\* Mutant: the loop stops one start year early.
OuterLoopCond_Strict(cy, a) == cy < a.end_year - a.years

\* Mutant: the loop ignores the horizon and runs to end_year.
OuterLoopCond_NoHorizon(cy, a) == cy <= a.end_year

\* ------------------------------------------- the code, step by step
\* line 55: current_year <= end_year - years (the parameter end_year)
OuterLoopCond(cy, a) == cy <= a.end_year - a.years

\* line 57: size_t end_year = current_year + (current_month - 1 + months - 1) / 12
EndYear(cy, cm, mths) == cy + ((cm - 1 + mths - 1) \div 12)

\* Mutant: months instead of months - 1.
EndMonth_OneMore(cm, mths) == 1 + (((cm - 1) + (mths % 12)) % 12)

\* line 58: size_t end_month = 1 + ((current_month - 1) + (months - 1) % 12) % 12
EndMonth(cm, mths) == 1 + (((cm - 1) + ((mths - 1) % 12)) % 12)

\* line 61: float withdrawal = start_value * wr / 100.0f
InitialWithdrawal(wr) == MulDiv(start_value, wr, 100)

\* line 66: start_value * (portfolio[i].allocation / 100.0f)
InitialValue(allocation) == MulDiv(start_value, allocation, 100)

\* lines 67 and 70: the cursor of a trial that starts at (cy, cm)
StartCursor(cy, cm) == get_start(cy, (cm % 12) + 1)

\* line 73: m = (y == current_year ? current_month : 1)
FirstMonth(yy, cy, cm) == IF yy = cy THEN cm ELSE 1

\* line 73: m <= (y == end_year ? end_month : 12)
LastMonth(yy, ey, em) == IF yy = ey THEN em ELSE 12

\* Where control goes on entering year yy of a trial (the tests of lines 72, 73).
EnterYear(yy, cy, cm, ey, em) ==
    IF yy <= ey
    THEN IF FirstMonth(yy, cy, cm) <= LastMonth(yy, ey, em)
         THEN "returns" ELSE "yearly_rebalance"
    ELSE "classify"

\* lines 75-78: current_values[i] *= returns[i]->value
ReturnsApplied(vals, ids, cursors) ==
    [i \in DOMAIN vals |-> Times(vals[i], Deref(ids[i], cursors[i]).value)]

\* ++returns[i], ++inflation
Advance(cursor) == cursor + 1

\* 1.0f - cost / 100.0f, for a cost in percent
FeeFactor(cost) == <<cost[2] * 100 - cost[1], cost[2] * 100>>

\* "Pay the fees": current_values[i] *= 1.0f - cost / 100.0f
PayFees(vals, cost) == [i \in DOMAIN vals |-> Times(vals[i], FeeFactor(cost))]

\* current_values[i] = total_value * (portfolio[i].allocation / 100.0f)
ResetToTarget(total, portfolio) ==
    [i \in DOMAIN portfolio |-> MulDiv(total, portfolio[i], 100)]

\* lines 81-92: the fees are paid, then the total is taken
MonthlyRebalance(vals, portfolio) ==
    LET paid == PayFees(vals, monthly_rebalancing_cost)
    IN  ResetToTarget(Sum(paid), portfolio)

\* line 100: std::abs(allocation / 100.0f - current_values[i] / total_value)
\* >= threshold, cross-multiplied; with total_value = 0 the quotient is 0/0, a
\* NaN, and every comparison with it is false.
Deviates(allocation, value, total, threshold) ==
    /\ total > 0
    /\ Abs(allocation * total - 100 * value) * threshold[2]
         >= threshold[1] * 100 * total

\* lines 98-104
NeedsRebalance(vals, portfolio, threshold) ==
    \E i \in DOMAIN vals : Deviates(portfolio[i], vals[i], Sum(vals), threshold)

\* lines 95-116: total_value is taken before the fees are paid (line 96); the
\* values the fee loop writes (lines 108-110) are overwritten by lines 112-114.
ThresholdRebalance(vals, portfolio, threshold) ==
    LET total_value == Sum(vals)
        paid == PayFees(vals, threshold_rebalancing_cost)
    IN  IF NeedsRebalance(vals, portfolio, threshold)
        THEN [i \in DOMAIN paid |-> MulDiv(total_value, portfolio[i], 100)]
        ELSE vals

\* lines 133-144
YearlyRebalance(vals, portfolio) ==
    LET paid == PayFees(vals, yearly_rebalancing_cost)
    IN  ResetToTarget(Sum(paid), portfolio)

\* Mutant: no floor at zero.
Withdraw_NoFloor(value, total, amount) ==
    IF total = 0 THEN 0 ELSE value - MulDiv(value, amount, total)

\* lines 127, 151: std::max(0.0f, value - (value / total_value) * amount).
\* With total_value = 0 every value is 0, value / total_value is a NaN, and
\* std::max(0.0f, NaN) is its first argument.
Withdraw(value, total, amount) ==
    IF total = 0 THEN 0 ELSE Max(0, value - MulDiv(value, amount, total))

WithdrawAll(vals, amount) ==
    [i \in DOMAIN vals |-> Withdraw(vals[i], Sum(vals), amount)]

\* line 119: withdrawal *= inflation->value
InflationAdjusted(w, id, cursor) == Times(w, Deref(id, cursor).value)

\* Mutant: the whole annual amount every month.
MonthlyAmount_Annual(w) == w

\* line 127: withdrawal / 12.0f
MonthlyAmount(w) == w \div 12

\* lines 158-162
Classified(r, final_value) ==
    IF final_value > 0
    THEN [r EXCEPT !.successes = @ + 1]
    ELSE [r EXCEPT !.failures = @ + 1]

\* line 168: 100 * (successes / float(successes + failures)), in 1/Scale percent
SuccessRate(r) ==
    IF r.successes + r.failures = 0 THEN 0
    ELSE MulDiv(100 * Scale, r.successes, r.successes + r.failures)

RECURSIVE Insert(_, _)
Insert(x, sorted) ==
    IF sorted = <<>> THEN <<x>>
    ELSE IF x <= sorted[1] THEN <<x>> \o sorted
    ELSE <<sorted[1]>> \o Insert(x, Tail(sorted))

\* Mutant: the vector is left as the trials filled it.
SortAscending_Unsorted(v) == v


RECURSIVE SortAscending(_)
\* line 177: std::sort(terminal_values.begin(), terminal_values.end())
SortAscending(v) ==
    IF v = <<>> THEN <<>> ELSE Insert(v[1], SortAscending(Tail(v)))

\* line 179: the 0-based index terminal_values.size() / 2 + 1
MedianIndex(n) == (n \div 2) + 1

\* What a read outside the vector may yield.
Garbage == {0 - 1, 0, 2 * start_value}

\* line 179: terminal_values[size / 2 + 1], unchecked
MedianRead(sorted) ==
    IF MedianIndex(Len(sorted)) < Len(sorted)
    THEN {sorted[MedianIndex(Len(sorted)) + 1]}
    ELSE Garbage

\* lines 180-182 (front(), back() and the mean of an empty vector are undefined)
EndsRead(sorted) ==
    IF sorted = <<>> THEN Garbage \X Garbage \X Garbage
    ELSE {<<sorted[1], sorted[Len(sorted)], Sum(sorted) \div Len(sorted)>>}

\* Mutant: the counter counts calls, not trials.
SimulationsAfter_OneCall(sims, tv) == sims + 1

\* line 171: simulations += terminal_values.size()
SimulationsAfter(sims, tv) == sims + Len(tv)

\* lines 18-28
parse_rebalance(str) ==
    IF str = "none" THEN NONE
    ELSE IF str = "monthly" THEN MONTHLY
    ELSE IF str = "yearly" THEN YEARLY
    ELSE THRESHOLD

\* lines 30-43: what operator<< writes
FormatRebalancing(rebalance) ==
    CASE rebalance = NONE -> "none"
      [] rebalance = MONTHLY -> "monthly"
      [] rebalance = YEARLY -> "yearly"
      [] rebalance = THRESHOLD -> "threshold"
      [] OTHER -> "Unknown rebalancing"

ParsedStrings == {"none", "monthly", "yearly", "threshold", "weekly"}

\* The argument lists a call is made with: endYear >= startYear + horizonYears,
\* one series per asset, the threshold given only with THRESHOLD.
Configs(pfs, horizons, rates, spans) ==
    { [portfolio |-> pf.portfolio, values |-> pf.values,
       inflation_data |-> "rising", years |-> yrs, wr |-> w,
       start_year |-> sy, end_year |-> sy + yrs + sp,
       monthly_wr |-> mw, rebalance |-> md[1], threshold |-> md[2]] :
        pf \in pfs, yrs \in horizons, w \in rates,
        sy \in StartYears, sp \in spans, mw \in BOOLEAN,
        md \in ({NONE, MONTHLY, YEARLY} \X {<<0, 1>>})
                  \cup ({THRESHOLD} \X Thresholds) }

NoArgs ==
    [portfolio |-> <<>>, values |-> <<>>, inflation_data |-> "rising",
     years |-> 0, wr |-> 0, start_year |-> 0, end_year |-> 0,
     monthly_wr |-> FALSE, rebalance |-> NONE, threshold |-> <<0, 1>>]

NoReturn == [op |-> "none", value |-> 0]

NoResults ==
    [successes |-> 0, failures |-> 0, success_rate |-> 0, tv_median |-> 0,
     tv_minimum |-> 0, tv_maximum |-> 0, tv_average |-> 0]

VARIABLES
    simulations,      \* the file-scope counter (line 9)
    pc,               \* where the running call is; "idle" between calls
    args,             \* the arguments of the running (or last) call
    res,              \* swr::results res
    terminal_values,
    current_year, current_month,
    end_year, end_month,   \* the trial's end (the inner end_year of line 57)
    withdrawal,
    current_values,
    returns,          \* one cursor per asset
    inflation,        \* the inflation cursor
    y, m,
    ret               \* what the last completed operation returned

vars ==
    <<simulations, pc, args, res, terminal_values, current_year, current_month,
      end_year, end_month, withdrawal, current_values, returns, inflation,
      y, m, ret>>

trial_vars ==
    <<end_year, end_month, withdrawal, current_values, returns, inflation,
      y, m>>

number_of_assets == Len(args.portfolio)

months == args.years * 12

Init ==
    /\ simulations = 0
    /\ pc = "idle"
    /\ args = NoArgs
    /\ res = NoResults
    /\ terminal_values = <<>>
    /\ current_year = 0
    /\ current_month = 0
    /\ end_year = 0
    /\ end_month = 0
    /\ withdrawal = 0
    /\ current_values = <<>>
    /\ returns = <<>>
    /\ inflation = 0
    /\ y = 0
    /\ m = 0
    /\ ret = NoReturn

\* ---------------------------------------------------------- actions
\* swr::simulation is entered (lines 45-55): the locals are constructed and the
\* outer loops start at (start_year, 1).
simulation(c) ==
    /\ pc = "idle"
    /\ args' = c
    /\ res' = NoResults
    /\ terminal_values' = <<>>
    /\ returns' = [i \in DOMAIN c.portfolio |-> 0]
    /\ current_year' = c.start_year
    /\ current_month' = 1
    /\ pc' = "trial"
    /\ ret' = NoReturn
    /\ UNCHANGED <<simulations, end_year, end_month, withdrawal,
                   current_values, inflation, y, m>>

\* A call is made with one of the argument lists cfgs while the counter is
\* below limit.
Call(cfgs, limit) ==
    /\ simulations < limit
    /\ \E c \in cfgs : simulation(c)

\* lines 55-73: the set-up of the trial that starts at
\* (current_year, current_month), up to the first test of the month loop.
BeginTrial ==
    /\ pc = "trial"
    /\ OuterLoopCond(current_year, args)
    /\ end_year' = EndYear(current_year, current_month, months)
    /\ end_month' = EndMonth(current_month, months)
    /\ withdrawal' = InitialWithdrawal(args.wr)
    /\ current_values' =
         [i \in DOMAIN args.portfolio |-> InitialValue(args.portfolio[i])]
    /\ returns' =
         [i \in DOMAIN args.portfolio |-> StartCursor(current_year, current_month)]
    /\ inflation' = StartCursor(current_year, current_month)
    /\ y' = current_year
    /\ m' = FirstMonth(current_year, current_year, current_month)
    /\ pc' = EnterYear(current_year, current_year, current_month,
                       end_year', end_month')
    /\ UNCHANGED <<simulations, args, res, terminal_values, current_year,
                   current_month, ret>>

\* lines 74-78: adjust the portfolio with the returns
ApplyReturns ==
    /\ pc = "returns"
    /\ current_values' = ReturnsApplied(current_values, args.values, returns)
    /\ returns' = [i \in DOMAIN returns |-> Advance(returns[i])]
    /\ pc' = "rebalance"
    /\ UNCHANGED <<simulations, args, res, terminal_values, current_year,
                   current_month, end_year, end_month, withdrawal, inflation,
                   y, m, ret>>

\* lines 80-116: monthly rebalance, threshold rebalance
Rebalance ==
    /\ pc = "rebalance"
    /\ current_values' =
         IF args.rebalance = MONTHLY
         THEN MonthlyRebalance(current_values, args.portfolio)
         ELSE IF args.rebalance = THRESHOLD
         THEN ThresholdRebalance(current_values, args.portfolio, args.threshold)
         ELSE current_values
    /\ pc' = "inflation"
    /\ UNCHANGED <<simulations, args, res, terminal_values, current_year,
                   current_month, end_year, end_month, withdrawal, returns,
                   inflation, y, m, ret>>

\* lines 118-120: adjust the withdrawal for inflation
AdjustInflation ==
    /\ pc = "inflation"
    /\ withdrawal' = InflationAdjusted(withdrawal, args.inflation_data, inflation)
    /\ inflation' = Advance(inflation)
    /\ pc' = "withdraw"
    /\ UNCHANGED <<simulations, args, res, terminal_values, current_year,
                   current_month, end_year, end_month, current_values, returns,
                   y, m, ret>>

\* lines 122-130 and the ++m, m <= ... of line 73
MonthlyWithdrawal ==
    /\ pc = "withdraw"
    /\ current_values' =
         IF args.monthly_wr
         THEN WithdrawAll(current_values, MonthlyAmount(withdrawal))
         ELSE current_values
    /\ m' = m + 1
    /\ pc' = IF m' <= LastMonth(y, end_year, end_month)
             THEN "returns" ELSE "yearly_rebalance"
    /\ UNCHANGED <<simulations, args, res, terminal_values, current_year,
                   current_month, end_year, end_month, withdrawal, returns,
                   inflation, y, ret>>

\* lines 132-144: yearly rebalance, after the month loop of year y
YearEndRebalance ==
    /\ pc = "yearly_rebalance"
    /\ current_values' =
         IF args.rebalance = YEARLY
         THEN YearlyRebalance(current_values, args.portfolio)
         ELSE current_values
    /\ pc' = "yearly_withdrawal"
    /\ UNCHANGED <<simulations, args, res, terminal_values, current_year,
                   current_month, end_year, end_month, withdrawal, returns,
                   inflation, y, m, ret>>

\* lines 146-154 and the ++y, y <= end_year of line 72
YearEndWithdrawal ==
    /\ pc = "yearly_withdrawal"
    /\ current_values' =
         IF ~args.monthly_wr
         THEN WithdrawAll(current_values, withdrawal)
         ELSE current_values
    /\ y' = y + 1
    /\ m' = IF y' <= end_year
            THEN FirstMonth(y', current_year, current_month) ELSE m
    /\ pc' = EnterYear(y', current_year, current_month, end_year, end_month)
    /\ UNCHANGED <<simulations, args, res, terminal_values, current_year,
                   current_month, end_year, end_month, withdrawal, returns,
                   inflation, ret>>

\* lines 156-165 and the ++current_month, ++current_year of lines 55, 56
ClassifyTrial ==
    /\ pc = "classify"
    /\ res' = Classified(res, Sum(current_values))
    /\ terminal_values' = Append(terminal_values, Sum(current_values))
    /\ current_month' = IF current_month + 1 <= 12 THEN current_month + 1 ELSE 1
    /\ current_year' =
         IF current_month + 1 <= 12 THEN current_year ELSE current_year + 1
    /\ pc' = "trial"
    /\ UNCHANGED <<simulations, args, trial_vars, ret>>

\* lines 168-173 and 176-183: the outer loop is over; the results are
\* computed, the counter is increased and the call returns.
Aggregate ==
    /\ pc = "trial"
    /\ ~OuterLoopCond(current_year, args)
    /\ LET sorted == SortAscending(terminal_values)
       IN  /\ terminal_values' = sorted
           /\ \E median \in MedianRead(sorted), ends \in EndsRead(sorted) :
                res' = [res EXCEPT !.success_rate = SuccessRate(res),
                                   !.tv_median = median,
                                   !.tv_minimum = ends[1],
                                   !.tv_maximum = ends[2],
                                   !.tv_average = ends[3]]
    /\ simulations' = SimulationsAfter(simulations, terminal_values)
    /\ ret' = [op |-> "simulation", value |-> res']
    /\ pc' = "idle"
    /\ UNCHANGED <<args, current_year, current_month, trial_vars>>

\* lines 185-187
simulations_ran ==
    /\ pc = "idle"
    /\ ret' = [op |-> "simulations_ran", value |-> simulations]
    /\ UNCHANGED <<simulations, pc, args, res, terminal_values, current_year,
                   current_month, trial_vars>>

\* lines 18-28, called with one of ParsedStrings
ParseRebalance ==
    /\ pc = "idle"
    /\ \E str \in ParsedStrings :
         ret' = [op |-> "parse_rebalance", value |-> parse_rebalance(str)]
    /\ UNCHANGED <<simulations, pc, args, res, terminal_values, current_year,
                   current_month, trial_vars>>

\* lines 30-43, called with one of the four enumerators
PrintRebalancing ==
    /\ pc = "idle"
    /\ \E r \in Rebalancing :
         ret' = [op |-> "operator<<", value |-> FormatRebalancing(r)]
    /\ UNCHANGED <<simulations, pc, args, res, terminal_values, current_year,
                   current_month, trial_vars>>

Step ==
    \/ BeginTrial
    \/ ApplyReturns
    \/ Rebalance
    \/ AdjustInflation
    \/ MonthlyWithdrawal
    \/ YearEndRebalance
    \/ YearEndWithdrawal
    \/ ClassifyTrial
    \/ Aggregate
    \/ simulations_ran
    \/ ParseRebalance
    \/ PrintRebalancing

\* One call of simulation in a fresh process, with any of the argument lists.
FirstCall == Call(Configs(Portfolios, 1..MaxYears, WithdrawalRates, Spans), 1)

Next == FirstCall \/ Step

Spec == Init /\ [][Next]_vars

\* Calls one after the other in one process.
RepeatedCall ==
    Call(Configs({[portfolio |-> <<100>>, values |-> <<"volatile">>]},
                 {1}, {120}, Spans),
         MaxSimulations)

NextCalls == RepeatedCall \/ Step

SpecCalls == Init /\ [][NextCalls]_vars

\* ------------------------------------------------------- properties
\* A call of simulation has returned.
CallReturned == pc = "idle" /\ args # NoArgs

\* The number of start years the outer loop is to visit.
EligibleYears == args.end_year - args.years - args.start_year + 1

\* How many times the trial under way has advanced its inflation cursor.
MonthsDone == inflation - StartCursor(current_year, current_month)

\* C1: a returned call has run and classified exactly
\* 12 * (endYear - horizonYears - startYear + 1) trials, one for each start
\* month 1..12 of each start year from startYear on; while the call runs, the
\* trials classified so far are those of the start months before
\* (current_year, current_month).
C1_TrialCount ==
    /\ CallReturned =>
         /\ res.successes + res.failures = 12 * EligibleYears
         /\ Len(terminal_values) = 12 * EligibleYears
    /\ pc # "idle" =>
         /\ current_month \in 1..12
         /\ res.successes + res.failures =
              12 * (current_year - args.start_year) + (current_month - 1)
         /\ Len(terminal_values) = res.successes + res.failures

C1_Witness ==
    /\ CallReturned
    /\ EligibleYears = 2
    /\ res.successes + res.failures = 24
    /\ res.successes > 0
    /\ res.failures > 0

\* C2 (as claimed): a threshold rebalancing step in a month in which some
\* asset deviates by at least the threshold leaves the pre-step total times
\* (1 - 0.0001), each asset holding that reduced total times its target weight
\* (within one unit of rounding per asset); in any other month it leaves the
\* values untouched.
C2_ThresholdFeeDeducted ==
    [][(pc = "rebalance" /\ args.rebalance = THRESHOLD) =>
         IF \E i \in DOMAIN current_values :
              Deviates(args.portfolio[i], current_values[i],
                       Sum(current_values), args.threshold)
         THEN LET reduced ==
                    Times(Sum(current_values),
                          FeeFactor(threshold_rebalancing_cost))
              IN  /\ Abs(Sum(current_values') - reduced) <= number_of_assets
                  /\ \A i \in DOMAIN current_values :
                       Abs(current_values'[i]
                             - MulDiv(reduced, args.portfolio[i], 100)) <= 1
         ELSE current_values' = current_values]_vars

\* C3 (as claimed): a yearly rebalancing or a full annual withdrawal is applied
\* only when the trial has simulated a whole number (at least one) of
\* 12-month years.
C3_YearEndAfterTwelveMonths ==
    (\/ pc = "yearly_rebalance" /\ args.rebalance = YEARLY
     \/ pc = "yearly_withdrawal" /\ ~args.monthly_wr)
      => MonthsDone > 0 /\ MonthsDone % 12 = 0

\* The calendar month that follows (year, month), as a position.
FollowingMonth(year, month) ==
    IF month < 12 THEN get_start(year, month + 1) ELSE get_start(year + 1, 1)

\* C4 (as claimed): when the first month of a trial is about to be simulated,
\* every return cursor and the inflation cursor are at the calendar month that
\* follows the trial's start month.
C4_CursorsAtFollowingMonth ==
    (pc = "returns" /\ y = current_year /\ m = current_month) =>
        /\ inflation = FollowingMonth(current_year, current_month)
        /\ \A i \in DOMAIN returns :
             returns[i] = FollowingMonth(current_year, current_month)

\* C5: no asset value and no terminal value is ever negative (all factors,
\* weights and the withdrawal rate of the argument lists are >= 0).
C5_ValuesNonNegative ==
    /\ \A i \in DOMAIN current_values : current_values[i] >= 0
    /\ \A i \in DOMAIN terminal_values : terminal_values[i] >= 0

\* A withdrawal larger than what is left has emptied the single asset.
C5_Witness ==
    /\ pc = "returns"
    /\ args.values = <<"volatile">>
    /\ args.monthly_wr
    /\ MonthsDone > 0
    /\ MonthlyAmount(withdrawal) > 0
    /\ current_values = <<0>>

\* C6: the counter starts at 0, a returning call of simulation adds exactly
\* its successes + failures, no other step changes it, and simulations_ran
\* returns it.
C6_CounterSumsTrials ==
    /\ simulations = 0
    /\ [][/\ (pc = "trial" /\ pc' = "idle") =>
               simulations' = simulations + res'.successes + res'.failures
          /\ ~(pc = "trial" /\ pc' = "idle") => simulations' = simulations
          /\ ret'.op = "simulations_ran" => ret'.value = simulations']_vars

\* simulations_ran returns 36 after calls of 12 and 24 trials or three of 12.
C6_Witness ==
    /\ ret.op = "simulations_ran"
    /\ ret.value = 36
    /\ simulations = 36

\* C7: a trial advances every cursor exactly years * 12 times; while it runs,
\* the loop variables (y, m) are the start (year, month) plus the months
\* simulated, the month wrapping from 12 to 1 of the next year.
C7_TrialLength ==
    /\ pc = "classify" =>
         /\ MonthsDone = args.years * 12
         /\ \A i \in DOMAIN returns : returns[i] = inflation
    /\ pc = "returns" =>
         /\ m \in 1..12
         /\ 12 * (y - current_year) + (m - current_month) = MonthsDone
         /\ MonthsDone < args.years * 12

C7_Witness ==
    /\ pc = "classify"
    /\ current_month = 7
    /\ args.years = 2
    /\ MonthsDone = 24
    /\ y = current_year + 3

RECURSIVE Compounded(_, _, _, _)
\* amount times the k factors of series id from position from on.
Compounded(amount, id, from, k) ==
    IF k = 0 THEN amount
    ELSE Compounded(Times(amount, Deref(id, from).value), id, from + 1, k - 1)

\* 1000 * wr / 100 times the first k inflation factors the trial reads.
ExpectedWithdrawal(k) ==
    Compounded((1000 * Scale * args.wr) \div 100, args.inflation_data,
               StartCursor(current_year, current_month), k)

InWindow(p) ==
    /\ args.start_year <= YearAt(p)
    /\ YearAt(p) <= args.end_year
    /\ MonthAt(p) \in 1..12

\* C9: every data point a trial dereferences is dated from (startYear, 1) to
\* (endYear, 12).
C9_ReadsInsideWindow ==
    /\ pc = "returns" => \A i \in DOMAIN returns : InWindow(returns[i])
    /\ pc = "inflation" => InWindow(inflation)

\* The latest read of a call: (endYear, 11), by the trial that starts in
\* November of the last eligible year.
C9_Witness ==
    /\ pc = "inflation"
    /\ YearAt(inflation) = args.end_year
    /\ MonthAt(inflation) = 11
    /\ current_year = args.end_year - args.years

\* C10: the terminal values handed to compute_terminal_values are a positive
\* multiple of 12 in number, the median index is inside the vector, and
\* tv_minimum <= tv_median <= tv_maximum.
C10_MedianInRange ==
    CallReturned =>
        /\ Len(terminal_values) > 0
        /\ Len(terminal_values) % 12 = 0
        /\ MedianIndex(Len(terminal_values)) < Len(terminal_values)
        /\ res.tv_minimum <= res.tv_median
        /\ res.tv_median <= res.tv_maximum

C10_Witness ==
    /\ CallReturned
    /\ Len(terminal_values) = 12
    /\ res.tv_minimum < res.tv_median
    /\ res.tv_median < res.tv_maximum
    /\ res.tv_median = terminal_values[8]

====
